---------------------------- MODULE Spec2Model ----------------------------
(***************************************************************************)
(* A model of example/ex11-count-lines.c (M*LIB): a recursive directory    *)
(* walk that counts the '\n' bytes of the C/C++ files of every directory   *)
(* into a tree of directories, folds the counts bottom-up, sorts every     *)
(* sibling group biggest first and prints the tree.                        *)
(*                                                                         *)
(* The file system is the environment: every readdir() answer is chosen    *)
(* from a small catalogue and recorded in the history variable fs, so that *)
(* the properties can compare the tree with a walk of fs that is           *)
(* independent of the program.  Names are sequences of characters, so      *)
(* that the suffix test and the hidden-entry test are computed as the code *)
(* computes them.                                                          *)
(***************************************************************************)
EXTENDS Integers, Sequences, FiniteSets, TLC

VARIABLES
  pc,        \* phase of main: "main", "scan", "consolidate", "print", "exit", "abort"
  argc,      \* main's argc
  argv1,     \* argv[1], the root directory path (used only when argc >= 2)
  tree,      \* the tree_t `directories`
  stack,     \* call stack of scan_directories, innermost frame last
  it,        \* the tree_it_t of the running consolidate / print loop (0: end)
  out,       \* lines printed by print_result
  exitCode,  \* <<>> while running, <<n>> after exit(n)
  fs,        \* history: the directory entries readdir() has returned
  statted,   \* history: the paths handed to stat()
  opened,    \* history: the paths handed to fopen()
  err,       \* history: the error that ended the run, "none" if none
  workers,   \* the workers of a parallel scan: the files each one counts
  folded     \* history: the nodes consolidate_directories has visited, in order

vars == <<pc, argc, argv1, tree, stack, it, out, exitCode, fs, statted, opened,
          err, workers, folded>>

---------------------------------------------------------------------------
(* Bounds of the model.                                                    *)

\* At most this many directory entries that are directories in one run.
MaxDirs == 2
\* At most this many regular files in one run.
MaxFiles == 2
\* At most this many workers in a parallel scan, and at most this many
\* files for one worker.
MaxWorkers == 2
MaxAdds == 2
\* At most this many files that are neither directories nor regular files in
\* one run of SpecSpecialFiles.
MaxSpecial == 2
\* The number of nodes the tree is reserved for.  The program reserves
\* 100000 (MAX_DIRECTORY, line 36); the model reserves fewer, so that a
\* scan can exhaust the reservation: SpecManyDirs lets a run meet
\* MAX_DIRECTORY directories below the root.
MAX_DIRECTORY == 3

\* atomic_uint and unsigned are 32 bits wide.  The integers of TLC
\* are narrower than 2^32, so a number is held as two digits in
\* base 2^16: [hi, lo] is hi * 2^16 + lo, with 0 <= lo < 2^16.  It is an
\* unsigned (an atomic_uint) when hi < 2^16 too; the number of '\n' bytes
\* of a file, and a sum of such numbers, may have any hi >= 0.
HALF == 65536

---------------------------------------------------------------------------
(* Inputs.                                                                 *)

\* The values of argv[1].
RootArgs == { <<".">> }

\* What readdir() + stat() can report for a directory entry that is a
\* directory.
DirCatalogue ==
  { [name |-> <<"s">>, kind |-> "dir", lines |-> [hi |-> 0, lo |-> 0]],
    [name |-> <<"t">>, kind |-> "dir", lines |-> [hi |-> 0, lo |-> 0]],
    [name |-> <<".", "g">>, kind |-> "dir", lines |-> [hi |-> 0, lo |-> 0]] }

\* What readdir() + stat() can report for an entry that is a file, with the
\* number of '\n' bytes the file holds.
FileCatalogue ==
  { [name |-> <<"a", ".", "c">>, kind |-> "reg", lines |-> [hi |-> 0, lo |-> 3]],
    [name |-> <<"b", ".", "h">>, kind |-> "reg", lines |-> [hi |-> 0, lo |-> 5]],
    [name |-> <<"c", ".", "c", "p", "p">>, kind |-> "reg", lines |-> [hi |-> 32768, lo |-> 0]],
    [name |-> <<"d", ".", "h", "p", "p">>, kind |-> "reg", lines |-> [hi |-> 98304, lo |-> 0]],
    [name |-> <<"e", ".", "p", "y">>, kind |-> "reg", lines |-> [hi |-> 0, lo |-> 2]],
    [name |-> <<".", "x", ".", "c">>, kind |-> "reg", lines |-> [hi |-> 0, lo |-> 1]] }

\* What readdir() + stat() can report for an entry that is neither a
\* directory nor a regular file (a FIFO), with the number of '\n' bytes a
\* read of it yields.
SpecialCatalogue ==
  { [name |-> <<"p", ".", "c">>, kind |-> "fifo", lines |-> [hi |-> 0, lo |-> 7]],
    [name |-> <<"q">>, kind |-> "fifo", lines |-> [hi |-> 0, lo |-> 7]],
    [name |-> <<".", "r", ".", "h">>, kind |-> "fifo", lines |-> [hi |-> 0, lo |-> 7]] }

---------------------------------------------------------------------------
(* Strings (m-string.h), as sequences of characters.                       *)

\* string_end_with_str_p(s, suf)
string_end_with_str_p(s, suf) ==
  /\ Len(s) >= Len(suf)
  /\ SubSeq(s, Len(s) - Len(suf) + 1, Len(s)) = suf

\* string_sets(filename, dirname, "/", entry->d_name)
PathOf(dirname, d_name) == dirname \o <<"/">> \o d_name

\* A test that lets through every entry but "." and "..".
NotHidden_DotAndDotDot(d_name) == d_name \notin { <<".">>, <<".", ".">> }

\* entry->d_name[0] != '.'
NotHidden(d_name) == d_name[1] # "."

\* An is_a_c_file that knows .c and .h only.
is_a_c_file_NoCpp(filename) ==
  \/ string_end_with_str_p(filename, <<".", "c">>)
  \/ string_end_with_str_p(filename, <<".", "h">>)

is_a_c_file(filename) ==
  \/ string_end_with_str_p(filename, <<".", "c">>)
  \/ string_end_with_str_p(filename, <<".", "h">>)
  \/ string_end_with_str_p(filename, <<".", "c", "p", "p">>)
  \/ string_end_with_str_p(filename, <<".", "h", "p", "p">>)

\* The sum of two numbers.
NumAdd(a, b) ==
  [hi |-> a.hi + b.hi + ((a.lo + b.lo) \div HALF), lo |-> (a.lo + b.lo) % HALF]

\* A number converted to unsigned: modulo 2^32.
ToUnsigned(a) == [hi |-> a.hi % HALF, lo |-> a.lo]

Zero == [hi |-> 0, lo |-> 0]

\* a > b
NumGreater(a, b) == a.hi > b.hi \/ (a.hi = b.hi /\ a.lo > b.lo)

\* The do/while of scan_file: the '\n' bytes of the whole file, summed into
\* the unsigned `count`.
CountLines(lines) == ToUnsigned(lines)

\* An addition on a counter wider than unsigned.
AtomicAdd_Wide(cur, n) == NumAdd(cur, n)

\* atomic_fetch_add on an atomic_uint: the new value.
AtomicAdd(cur, n) == ToUnsigned(NumAdd(cur, n))


\* An addition that is a load, done when the file was read, and a later
\* store.
atomic_fetch_add_LoadThenStore(current, seen, n) == AtomicAdd(seen, n)

\* atomic_fetch_add of n to a counter that holds `current` when the
\* addition takes place, and held `seen` at an earlier moment.
atomic_fetch_add(current, seen, n) == AtomicAdd(current, n)

---------------------------------------------------------------------------
(* The tree of directories (m-tree.h).  A tree is an arena `tab` of nodes  *)
(* addressed by their index, which never changes once the node is          *)
(* inserted; 0 is the end iterator.                                        *)

NoNode == 0

\* dir_init_emplace(data, 0, dirname): the tuple dir_t (nlines, name).
dir_init_emplace(n, dirname) == [nlines |-> n, name |-> dirname]

\* An atomic_uint_cmp that puts the smallest value first.
atomic_uint_cmp_SmallestFirst(ai, bi) ==
  IF NumGreater(ai, bi) THEN 1 ELSE IF NumGreater(bi, ai) THEN -1 ELSE 0

\* atomic_uint_cmp: the biggest value first.
atomic_uint_cmp(ai, bi) ==
  IF NumGreater(ai, bi) THEN -1 ELSE IF NumGreater(bi, ai) THEN 1 ELSE 0

\* The order of dir_t: nlines by atomic_uint_cmp; the name takes no part,
\* its CMP being disabled.
dir_cmp(a, b) == atomic_uint_cmp(a.nlines, b.nlines)

\* tree_init: no node, nothing reserved, growth allowed.
tree_init == [root |-> NoNode, tab |-> <<>>, capacity |-> 0, lock |-> FALSE]

\* tree_reserve(t, n)
tree_reserve(t, n) == [t EXCEPT !.capacity = IF n > @ THEN n ELSE @]

\* tree_lock(t, b)
tree_lock(t, b) == [t EXCEPT !.lock = b]

tree_end_p(i) == i = NoNode

\* An insertion fails when every reserved node is in use and the tree is
\* locked against growth.
tree_full_p(t) == Len(t.tab) >= t.capacity /\ t.lock

\* The arena after one more node is taken from it; an unlocked arena grows.
tree_alloc(t, node) ==
  [t EXCEPT !.tab = Append(@, node),
            !.capacity = IF Len(t.tab) >= @ THEN Len(t.tab) + 1 ELSE @]

\* tree_set_root(t, data): the tree and the iterator of the new root.
tree_set_root(t, data) ==
  LET node == [data |-> data, parent |-> NoNode, child |-> <<>>]
      t1 == tree_alloc(t, node)
  IN  [tree |-> [t1 EXCEPT !.root = Len(t1.tab)], it |-> Len(t1.tab)]

\* tree_insert_child(parent, data): the new node is appended to the
\* children of parent.
tree_insert_child(t, parent, data) ==
  LET node == [data |-> data, parent |-> parent, child |-> <<>>]
      t1 == tree_alloc(t, node)
      i  == Len(t1.tab)
  IN  [tree |-> [t1 EXCEPT !.tab[parent].child = Append(@, i)], it |-> i]

\* tree_up_ref: the parent of a node, NoNode for the root.
tree_up(t, i) == t.tab[i].parent

\* The position of node i among the children of its parent.
ChildIndex(t, i) ==
  LET c == t.tab[tree_up(t, i)].child
  IN  CHOOSE k \in 1..Len(c) : c[k] = i

\* The next sibling of node i, NoNode if it is the last child or the root.
tree_right(t, i) ==
  IF tree_up(t, i) = NoNode THEN NoNode
  ELSE LET c == t.tab[tree_up(t, i)].child
           k == ChildIndex(t, i)
       IN  IF k < Len(c) THEN c[k + 1] ELSE NoNode

\* The first node of the subtree of i in post-order: down the first
\* children to a leaf.
RECURSIVE FirstLeaf(_, _)
FirstLeaf(t, i) ==
  IF t.tab[i].child = <<>> THEN i ELSE FirstLeaf(t, t.tab[i].child[1])

\* tree_it_post: the first node in post-order.
tree_it_post(t) == IF t.root = NoNode THEN NoNode ELSE FirstLeaf(t, t.root)

\* tree_next_post: children before their parent.
tree_next_post(t, i) ==
  IF tree_right(t, i) # NoNode THEN FirstLeaf(t, tree_right(t, i))
  ELSE tree_up(t, i)

\* tree_it: the first node in pre-order, the root.
tree_it(t) == t.root

\* The next node in pre-order that is not below i.
RECURSIVE NextAside(_, _)
NextAside(t, i) ==
  IF i = NoNode THEN NoNode
  ELSE IF tree_right(t, i) # NoNode THEN tree_right(t, i)
  ELSE NextAside(t, tree_up(t, i))

\* tree_next: a parent before its children.
tree_next(t, i) ==
  IF t.tab[i].child # <<>> THEN t.tab[i].child[1] ELSE NextAside(t, i)

\* tree_depth: the number of ancestors.
RECURSIVE tree_depth(_, _)
tree_depth(t, i) ==
  IF tree_up(t, i) = NoNode THEN 0 ELSE 1 + tree_depth(t, tree_up(t, i))

\* x put into the sorted sequence s of nodes, behind every node that does
\* not order after it: equal nodes keep the order they came in.
RECURSIVE InsertSorted(_, _, _)
InsertSorted(t, s, x) ==
  IF s = <<>> THEN <<x>>
  ELSE IF dir_cmp(t.tab[s[Len(s)]].data, t.tab[x].data) <= 0 THEN Append(s, x)
  ELSE Append(InsertSorted(t, SubSeq(s, 1, Len(s) - 1), x), s[Len(s)])

RECURSIVE SortNodes(_, _)
SortNodes(t, s) ==
  IF s = <<>> THEN <<>>
  ELSE InsertSorted(t, SortNodes(t, SubSeq(s, 1, Len(s) - 1)), s[Len(s)])

\* tree_sort_child(it): a stable sort of the children of a node.
tree_sort_child(t, i) == [t EXCEPT !.tab[i].child = SortNodes(t, @)]

---------------------------------------------------------------------------
(* The functions of ex11-count-lines.c.                                    *)

\* An add_directory that returns the iterator of the parent.
add_directory_ReturnsParent(t, parent, dirname) ==
  LET data == dir_init_emplace(Zero, dirname)
  IN  IF tree_end_p(parent) THEN tree_set_root(t, data)
      ELSE [tree |-> tree_insert_child(t, parent, data).tree, it |-> parent]

\* An add_directory that inserts every directory right under the root.
add_directory_UnderRoot(t, parent, dirname) ==
  LET data == dir_init_emplace(Zero, dirname)
  IN  IF tree_end_p(parent) THEN tree_set_root(t, data)
      ELSE tree_insert_child(t, t.root, data)

\* add_directory(parent, dirname): the tree and the iterator of the new
\* node, the root when parent is the end iterator.
add_directory(t, parent, dirname) ==
  LET data == dir_init_emplace(Zero, dirname)
  IN  IF tree_end_p(parent) THEN tree_set_root(t, data)
      ELSE tree_insert_child(t, parent, data)

\* A scan_file that returns when fopen() fails.
scan_file_SkipUnreadable(t, parent, filename, lines, openOk) ==
  IF ~is_a_c_file(filename)
    THEN [fopen |-> FALSE, exit |-> FALSE, tree |-> t]
  ELSE IF ~openOk
    THEN [fopen |-> TRUE, exit |-> FALSE, tree |-> t]
  ELSE [fopen |-> TRUE, exit |-> FALSE,
        tree |-> [t EXCEPT !.tab[parent].data.nlines =
                                 AtomicAdd(@, CountLines(lines))]]

\* scan_file(parent, filename) on a file of `lines` '\n' bytes that fopen()
\* opens or not: whether fopen() was called, whether the run ends in
\* exit(1), and the tree.
scan_file(t, parent, filename, lines, openOk) ==
  IF ~is_a_c_file(filename)
    THEN [fopen |-> FALSE, exit |-> FALSE, tree |-> t]
  ELSE IF ~openOk
    THEN [fopen |-> TRUE, exit |-> TRUE, tree |-> t]
  ELSE [fopen |-> TRUE, exit |-> FALSE,
        tree |-> [t EXCEPT !.tab[parent].data.nlines =
                                 AtomicAdd(@, CountLines(lines))]]

\* A loop of scan_directories that goes on to the next entry when stat()
\* fails.
EntryStep_SkipUnstattable(d_name, kind, statOk) ==
  IF ~NotHidden(d_name) THEN "next"
  ELSE IF ~statOk THEN "next"
  ELSE IF kind = "dir" THEN "scan_directories"
  ELSE "scan_file"

\* What one turn of the loop of scan_directories does with the entry
\* d_name, whose stat() succeeds or not and reports `kind`: nothing, exit(2),
\* or a call of scan_directories or of scan_file.
EntryStep(d_name, kind, statOk) ==
  IF ~NotHidden(d_name) THEN "next"
  ELSE IF ~statOk THEN "exit"
  ELSE IF kind = "dir" THEN "scan_directories"
  ELSE "scan_file"

\* Exit codes with 1 for a failed stat().
ExitCodeOf_StatOne(kind) ==
  CASE kind = "none" -> <<0>>
    [] kind = "usage" -> <<1>>
    [] kind = "fopen" -> <<1>>
    [] kind = "opendir" -> <<1>>
    [] kind = "stat" -> <<1>>

\* The exit codes of main and of the failures of fopen(), opendir() and
\* stat().
ExitCodeOf(kind) ==
  CASE kind = "none" -> <<0>>
    [] kind = "usage" -> <<1>>
    [] kind = "fopen" -> <<1>>
    [] kind = "opendir" -> <<1>>
    [] kind = "stat" -> <<2>>

\* A consolidate_directories that adds the parent to the node, not the node
\* to the parent.
ConsolidateNode_Swapped(t, i) ==
  LET parent == tree_up(t, i)
      t1 == IF parent # NoNode
              THEN [t EXCEPT !.tab[i].data.nlines =
                                   AtomicAdd(@, t.tab[parent].data.nlines)]
              ELSE t
  IN  tree_sort_child(t1, i)

\* A consolidate_directories that sorts the children of the parent of the
\* node, and those of the root at the root.
ConsolidateNode_SortsSiblings(t, i) ==
  LET parent == tree_up(t, i)
      t1 == IF parent # NoNode
              THEN [t EXCEPT !.tab[parent].data.nlines =
                                   AtomicAdd(@, t.tab[i].data.nlines)]
              ELSE t
  IN  tree_sort_child(t1, IF parent # NoNode THEN parent ELSE i)

\* A consolidate_directories that adds the node to its parent twice.
ConsolidateNode_Twice(t, i) ==
  LET parent == tree_up(t, i)
      t1 == IF parent # NoNode
              THEN [t EXCEPT !.tab[parent].data.nlines =
                       AtomicAdd(AtomicAdd(@, t.tab[i].data.nlines),
                                 t.tab[i].data.nlines)]
              ELSE t
  IN  tree_sort_child(t1, i)

\* A consolidate_directories that sorts and does not add.
ConsolidateNode_NoAdd(t, i) == tree_sort_child(t, i)

\* The body of the loop of consolidate_directories at node i: the node is
\* added to its parent, then its children are sorted.
ConsolidateNode(t, i) ==
  LET parent == tree_up(t, i)
      t1 == IF parent # NoNode
              THEN [t EXCEPT !.tab[parent].data.nlines =
                                   AtomicAdd(@, t.tab[i].data.nlines)]
              ELSE t
  IN  tree_sort_child(t1, i)

\* consolidate_directories from iterator i to the end.
RECURSIVE ConsolidateFrom(_, _)
ConsolidateFrom(t, i) ==
  IF tree_end_p(i) THEN t
  ELSE LET t1 == ConsolidateNode(t, i)
       IN  ConsolidateFrom(t1, tree_next_post(t1, i))

\* consolidate_directories(directories)
consolidate_directories(t) == ConsolidateFrom(t, tree_it_post(t))

\* A print_result that counts the depth from 1.
ReportLine_DepthFromOne(t, i) ==
  [depth |-> tree_depth(t, i) + 1, nlines |-> t.tab[i].data.nlines,
   name |-> t.tab[i].data.name]

\* The line print_result prints for node i: the depth, the count and the
\* name.
ReportLine(t, i) ==
  [depth |-> tree_depth(t, i), nlines |-> t.tab[i].data.nlines,
   name |-> t.tab[i].data.name]

\* A main that does not call consolidate_directories.
MainNext_NoConsolidate(phase) == IF phase = "print" THEN "exit" ELSE "print"

\* What main calls when the call of phase returns: scan_directories, then
\* consolidate_directories, then print_result, then exit.
MainNext(phase) ==
  CASE phase = "scan" -> "consolidate"
    [] phase = "consolidate" -> "print"
    [] phase = "print" -> "exit"

\* The iterator a phase starts with: consolidate_directories goes through
\* the tree in post-order and print_result in pre-order.
PhaseStart(t, phase) ==
  IF phase = "consolidate" THEN tree_it_post(t) ELSE tree_it(t)

\* A main that reserves the tree and does not lock it.
MainTree_NoLock == tree_reserve(tree_init, MAX_DIRECTORY)

\* tree_init, tree_reserve and tree_lock of main.
MainTree == tree_lock(tree_reserve(tree_init, MAX_DIRECTORY), TRUE)

---------------------------------------------------------------------------
(* The run.                                                                *)

Init ==
  /\ pc = "main"
  /\ argc \in {1, 2}
  /\ argv1 \in RootArgs
  /\ tree = tree_init
  /\ stack = <<>>
  /\ it = NoNode
  /\ out = <<>>
  /\ exitCode = <<>>
  /\ fs = {}
  /\ statted = {}
  /\ opened = {}
  /\ err = "none"
  /\ folded = <<>>
  /\ workers = <<>>

\* exit(code) after the failure `kind`, or at the end of main.
Exit(kind) ==
  /\ pc' = "exit"
  /\ exitCode' = ExitCodeOf(kind)

\* The fatal failure of an insertion into the full tree: the process is
\* ended without an exit code of its own.
Abort ==
  /\ pc' = "abort"
  /\ exitCode' = <<>>

Top == stack[Len(stack)]

\* The names readdir() has already returned in directory d.
NamesIn(d) == { e.name : e \in { x \in fs : x.dir = d } }

\* What readdir() can return next in directory d, in a run that meets at
\* most maxDirs directories, maxFiles regular files and maxSpecial other
\* files.
NextEntries(d, maxDirs, maxFiles, maxSpecial) ==
  { e \in DirCatalogue :
      /\ e.name \notin NamesIn(d)
      /\ Cardinality({ x \in fs : x.kind = "dir" }) < maxDirs }
  \cup
  { e \in FileCatalogue :
      /\ e.name \notin NamesIn(d)
      /\ Cardinality({ x \in fs : x.kind = "reg" }) < maxFiles }
  \cup
  { e \in SpecialCatalogue :
      /\ e.name \notin NamesIn(d)
      /\ Cardinality({ x \in fs : x.kind = "fifo" }) < maxSpecial }

\* main up to the call of scan_directories.
Main ==
  /\ pc = "main"
  /\ IF argc < 2
       THEN /\ Exit("usage")
            /\ err' = "usage"
            /\ UNCHANGED <<tree, stack>>
       ELSE /\ tree' = MainTree
            /\ stack' = <<[st |-> "enter", parent |-> NoNode,
                           dirname |-> argv1, it |-> NoNode]>>
            /\ pc' = "scan"
            /\ UNCHANGED <<exitCode, err>>
  /\ UNCHANGED <<workers, argc, argv1, it, out, fs, statted, opened, folded>>

\* scan_directories up to its loop: add_directory, then opendir().
ScanEnter ==
  /\ pc = "scan"
  /\ Top.st = "enter"
  /\ IF tree_full_p(tree)
       THEN /\ Abort
            /\ err' = "capacity"
            /\ UNCHANGED <<tree, stack>>
       ELSE LET r == add_directory(tree, Top.parent, Top.dirname)
            IN  /\ tree' = r.tree
                /\ \E dirOk \in BOOLEAN :
                     IF dirOk
                       THEN /\ stack' = [stack EXCEPT ![Len(stack)] =
                                           [@ EXCEPT !.st = "loop", !.it = r.it]]
                            /\ UNCHANGED <<pc, exitCode, err>>
                       ELSE /\ Exit("opendir")
                            /\ err' = "opendir"
                            /\ UNCHANGED stack
  /\ UNCHANGED <<workers, argc, argv1, it, out, fs, statted, opened, folded>>

\* One turn of the loop of scan_directories on the entry e that readdir()
\* returns.
ScanEntry(maxDirs, maxFiles, maxSpecial) ==
  /\ pc = "scan"
  /\ Top.st = "loop"
  /\ \E e \in NextEntries(Top.dirname, maxDirs, maxFiles, maxSpecial),
        statOk \in BOOLEAN, openOk \in BOOLEAN :
       LET filename == PathOf(Top.dirname, e.name)
           step == EntryStep(e.name, e.kind, statOk)
           r == scan_file(tree, Top.it, filename, e.lines, openOk)
       IN  /\ fs' = fs \cup {[dir |-> Top.dirname, name |-> e.name,
                              kind |-> e.kind, lines |-> e.lines]}
           /\ statted' = IF NotHidden(e.name) THEN statted \cup {filename}
                         ELSE statted
           /\ err' = IF NotHidden(e.name) /\ ~statOk THEN "stat"
                     ELSE IF step = "scan_file" /\ r.fopen /\ ~openOk
                       THEN "fopen"
                     ELSE err
           /\ CASE step = "next" ->
                     UNCHANGED <<pc, exitCode, tree, stack, opened>>
                [] step = "exit" ->
                     /\ Exit("stat")
                     /\ UNCHANGED <<tree, stack, opened>>
                [] step = "scan_directories" ->
                     /\ stack' = Append(stack,
                           [st |-> "enter", parent |-> Top.it,
                            dirname |-> filename, it |-> NoNode])
                     /\ UNCHANGED <<pc, exitCode, tree, opened>>
                [] step = "scan_file" ->
                     /\ opened' = IF r.fopen THEN opened \cup {filename}
                                  ELSE opened
                     /\ tree' = r.tree
                     /\ IF r.exit THEN Exit("fopen")
                                  ELSE UNCHANGED <<pc, exitCode>>
                     /\ UNCHANGED stack
  /\ UNCHANGED <<workers, argc, argv1, it, out, folded>>

\* readdir() returns NULL: closedir() and return; the outermost call
\* returns to main, which starts consolidate_directories.
ScanReturn ==
  /\ pc = "scan"
  /\ Top.st = "loop"
  /\ stack' = SubSeq(stack, 1, Len(stack) - 1)
  /\ IF Len(stack) = 1
       THEN /\ pc' = MainNext("scan")
            /\ it' = PhaseStart(tree, MainNext("scan"))
       ELSE UNCHANGED <<pc, it>>
  /\ UNCHANGED <<workers, argc, argv1, tree, out, exitCode, fs, statted, opened, err,
                 folded>>

\* One turn of the loop of consolidate_directories; at the end main goes
\* on to print_result.
Consolidate ==
  /\ pc = "consolidate"
  /\ IF tree_end_p(it)
       THEN /\ pc' = MainNext("consolidate")
            /\ it' = PhaseStart(tree, MainNext("consolidate"))
            /\ UNCHANGED <<tree, folded>>
       ELSE /\ tree' = ConsolidateNode(tree, it)
            /\ it' = tree_next_post(tree', it)
            /\ folded' = Append(folded, it)
            /\ UNCHANGED pc
  /\ UNCHANGED <<workers, argc, argv1, stack, out, exitCode, fs, statted, opened, err>>

\* One turn of the loop of print_result; at the end main clears the tree
\* and calls exit(0).
PrintResult ==
  /\ pc = "print"
  /\ IF tree_end_p(it)
       THEN /\ Exit("none")
            /\ UNCHANGED <<it, out, err>>
       ELSE /\ out' = Append(out, ReportLine(tree, it))
            /\ it' = tree_next(tree, it)
            /\ UNCHANGED <<pc, exitCode, err>>
  /\ UNCHANGED <<workers, argc, argv1, tree, stack, fs, statted, opened, folded>>

Next ==
  \/ Main
  \/ ScanEnter
  \/ ScanEntry(MaxDirs, MaxFiles, 0)
  \/ ScanReturn
  \/ Consolidate
  \/ PrintResult

Spec == Init /\ [][Next]_vars

\* The runs over directories that hold no files and up to MAX_DIRECTORY
\* directories below the root: one directory more than the tree is
\* reserved for.
NextManyDirs ==
  \/ Main
  \/ ScanEnter
  \/ ScanEntry(MAX_DIRECTORY, 0, 0)
  \/ ScanReturn
  \/ Consolidate
  \/ PrintResult

SpecManyDirs == Init /\ [][NextManyDirs]_vars

\* The runs over directories that hold, besides directories, up to
\* MaxSpecial files that are not regular files.
NextSpecialFiles ==
  \/ Main
  \/ ScanEnter
  \/ ScanEntry(MaxDirs, 0, MaxSpecial)
  \/ ScanReturn
  \/ Consolidate
  \/ PrintResult

SpecSpecialFiles == Init /\ [][NextSpecialFiles]_vars

---------------------------------------------------------------------------
(* A parallel scan: workers that run the counting part of scan_file, each  *)
(* on its own files, all of the same directory.                            *)

\* The '\n' bytes of the k-th file of worker w.
WorkerFile(w, k) ==
  IF (w + k) % 2 = 0 THEN [hi |-> 32768, lo |-> 0] ELSE [hi |-> 0, lo |-> w + k]

\* The directory is in the tree; every worker has its files to count.
InitParallel ==
  /\ pc = "parallel"
  /\ argc = 2
  /\ argv1 \in RootArgs
  /\ tree = add_directory(MainTree, NoNode, argv1).tree
  /\ stack = <<>>
  /\ it = NoNode
  /\ out = <<>>
  /\ exitCode = <<>>
  /\ fs = {}
  /\ statted = {}
  /\ opened = {}
  /\ err = "none"
  /\ folded = <<>>
  /\ \E n \in 1..MaxWorkers :
       \E files \in [1..n -> 1..MaxAdds] :
         workers = [w \in 1..n |->
                      [st |-> "read", files |-> files[w], done |-> 0,
                       count |-> Zero, seen |-> Zero]]

\* Worker w reads its next file to the end (lines 86-94): it holds the
\* count of the file; seen is the count of the node at that moment.
WorkerRead(w) ==
  /\ pc = "parallel"
  /\ workers[w].st = "read"
  /\ workers[w].done < workers[w].files
  /\ workers' = [workers EXCEPT ![w] =
                   [@ EXCEPT !.st = "add",
                             !.count = CountLines(WorkerFile(w, workers[w].done + 1)),
                             !.seen = tree.tab[tree.root].data.nlines]]
  /\ UNCHANGED <<pc, argc, argv1, tree, stack, it, out, exitCode, fs, statted,
                 opened, err, folded>>

\* Worker w adds the count of the file to the node (line 98).
WorkerAdd(w) ==
  /\ pc = "parallel"
  /\ workers[w].st = "add"
  /\ tree' = [tree EXCEPT !.tab[tree.root].data.nlines =
                 atomic_fetch_add(@, workers[w].seen, workers[w].count)]
  /\ workers' = [workers EXCEPT ![w] =
                   [@ EXCEPT !.st = "read", !.done = @ + 1]]
  /\ UNCHANGED <<pc, argc, argv1, stack, it, out, exitCode, fs, statted,
                 opened, err, folded>>

NextParallel ==
  \/ \E w \in DOMAIN workers : WorkerRead(w)
  \/ \E w \in DOMAIN workers : WorkerAdd(w)

SpecParallel == InitParallel /\ [][NextParallel]_vars

---------------------------------------------------------------------------
(* A walk of the file system fs that is independent of the program: what   *)
(* the tree is compared with.                                              *)

Nodes == 1..Len(tree.tab)
NLines(i) == tree.tab[i].data.nlines
Name(i) == tree.tab[i].data.name
Children(i) == tree.tab[i].child

\* The name begins with a dot.
RefHidden(name) == Head(name) = "."

\* The characters behind the last dot of a name that holds a dot.
RefExtension(name) ==
  LET dots == { k \in 1..Len(name) : name[k] = "." }
      last == CHOOSE k \in dots : \A j \in dots : j <= k
  IN  SubSeq(name, last + 1, Len(name))

\* The entry is a visible file with the extension c, h, cpp or hpp.
RefCounted(x) ==
  /\ x.kind # "dir"
  /\ ~RefHidden(x.name)
  /\ \E k \in 1..Len(x.name) : x.name[k] = "."
  /\ RefExtension(x.name) \in
       { <<"c">>, <<"h">>, <<"c", "p", "p">>, <<"h", "p", "p">> }

\* The path of an entry.
RefPath(x) == x.dir \o <<"/">> \o x.name

\* The directories of S and the visible directories anywhere below them.
RECURSIVE RefBelow(_)
RefBelow(S) ==
  LET more == { RefPath(x) : x \in { y \in fs : /\ y.kind = "dir"
                                                /\ y.dir \in S
                                                /\ ~RefHidden(y.name) } }
  IN  IF more \subseteq S THEN S ELSE RefBelow(S \cup more)

\* The sum of the '\n' bytes of a set of entries.
RECURSIVE RefSum(_)
RefSum(S) ==
  IF S = {} THEN Zero
  ELSE LET x == CHOOSE y \in S : TRUE
       IN  NumAdd(x.lines, RefSum(S \ {x}))

\* The '\n' bytes of the counted files directly in directory d.
RefOwn(d) == RefSum({ x \in fs : x.dir = d /\ RefCounted(x) })

\* The '\n' bytes of the counted files in directory d and anywhere below.
RefTotal(d) ==
  LET below == RefBelow({d})
  IN  RefSum({ x \in fs : x.dir \in below /\ RefCounted(x) })

\* consolidate_directories has returned.
Consolidated == pc = "print" \/ (pc = "exit" /\ exitCode = <<0>>)

---------------------------------------------------------------------------
(* C1 *)

\* C1, as claimed: after consolidate_directories the line count of every
\* node equals the sum of the '\n' bytes of all counted files in the
\* subtree of its directory, found by the walk RefTotal.
C1_SubtreeSumExact ==
  Consolidated => \A i \in Nodes : NLines(i) = RefTotal(Name(i))

\* C1, amended: after consolidate_directories the line count of every node
\* equals that sum modulo 2^32 (and so the sum itself whenever the sum is
\* below 2^32).
C1_SubtreeSumModulo ==
  [](Consolidated => \A i \in Nodes : NLines(i) = ToUnsigned(RefTotal(Name(i))))

\* A consolidated node whose total is its own files plus those of a child.
C1_Witness ==
  /\ pc = "print"
  /\ \E i \in Nodes :
       /\ Children(i) # <<>>
       /\ NLines(Children(i)[1]) # Zero
       /\ RefOwn(Name(i)) # Zero
       /\ NLines(i) = NumAdd(RefOwn(Name(i)), NLines(Children(i)[1]))

---------------------------------------------------------------------------
(* C2 *)

\* C2: after consolidate_directories the children of every node are in
\* non-increasing order of line count, and children of equal line count
\* are in the order of their insertion (nodes are numbered in the order of
\* their insertion).
C2_ChildrenSortedStable ==
  Consolidated =>
    \A i \in Nodes :
      \A k, l \in 1..Len(Children(i)) :
        k < l =>
          /\ ~NumGreater(NLines(Children(i)[l]), NLines(Children(i)[k]))
          /\ NLines(Children(i)[k]) = NLines(Children(i)[l])
               => Children(i)[k] < Children(i)[l]

\* A consolidated node whose sort moved a later, bigger child to the front.
C2_Witness ==
  /\ pc = "print"
  /\ \E i \in Nodes :
       /\ Len(Children(i)) = 2
       /\ Children(i)[1] > Children(i)[2]
       /\ NumGreater(NLines(Children(i)[1]), NLines(Children(i)[2]))

---------------------------------------------------------------------------
(* C3 *)

\* C3, as claimed: a second consolidate_directories, right after the first,
\* leaves every line count and every order of siblings as it was.
C3_Idempotent == Consolidated => consolidate_directories(tree) = tree

\* The sum of the line counts in tree t of a sequence of nodes.
RECURSIVE C3_SumOf(_, _)
C3_SumOf(t, s) ==
  IF s = <<>> THEN Zero
  ELSE NumAdd(t.tab[Head(s)].data.nlines, C3_SumOf(t, Tail(s)))

\* C3, amended: a second consolidate_directories adds the children to
\* their parents again: the count of a node becomes its count after the
\* first run plus the new counts of its children, modulo 2^32, and that of
\* a node without children stays; when every node but the root has the
\* count 0, the second run changes nothing, neither a count nor an order.
C3_SecondRun ==
  [](Consolidated =>
       LET t2 == consolidate_directories(tree)
       IN  /\ \A i \in Nodes :
                t2.tab[i].data.nlines =
                  ToUnsigned(NumAdd(NLines(i), C3_SumOf(t2, Children(i))))
           /\ \A i \in Nodes :
                Children(i) = <<>> => t2.tab[i].data.nlines = NLines(i)
           /\ (\A i \in Nodes : i # tree.root => NLines(i) = Zero) => t2 = tree)

\* A consolidated tree of a root that holds lines and of two directories
\* that hold none: the second run changes nothing.
C3_Witness ==
  /\ pc = "print"
  /\ Len(tree.tab) = 3
  /\ NLines(tree.root) # Zero
  /\ \A i \in Nodes : i # tree.root => NLines(i) = Zero
  /\ consolidate_directories(tree) = tree

---------------------------------------------------------------------------
(* C4 *)

\* The directories of the walk: the root and every visible directory below.
RefDirs == RefBelow({argv1})

NodeNames == { Name(i) : i \in Nodes }

\* C4: the tree never holds more than MAX_DIRECTORY nodes; the insertion
\* that finds the reservation used up ends the run at once in the fatal
\* failure, before any consolidation or report; and while no failure has
\* occurred no directory is dropped: every directory of the walk has its
\* node, but the one whose insertion is the next step.
C4_CapacityFatal ==
  /\ Len(tree.tab) <= MAX_DIRECTORY
  /\ err = "capacity" =>
       /\ pc = "abort"
       /\ exitCode = <<>>
       /\ Len(tree.tab) = MAX_DIRECTORY
       /\ out = <<>>
       /\ folded = <<>>
  /\ (err = "none" /\ pc # "main") =>
       LET names == NodeNames
       IN  \A d \in RefDirs :
             \/ d \in names
             \/ /\ pc = "scan"
                /\ Top.st = "enter"
                /\ Top.dirname = d

\* The run has ended in the fatal failure of the insertion of one directory
\* more than the tree is reserved for.
C4_Witness ==
  /\ pc = "abort"
  /\ err = "capacity"
  /\ Len(tree.tab) = MAX_DIRECTORY
  /\ Top.st = "enter"
  /\ Top.dirname \notin NodeNames

---------------------------------------------------------------------------
(* C5 *)

\* C5: the exit code is 0 exactly when the whole run succeeded (no failure,
\* and the report of every node printed), 1 when argv[1] is missing or a
\* file to count cannot be opened, 2 when stat() fails.
C5_ExitCodes ==
  pc = "exit" =>
    /\ exitCode = <<0>> <=> err = "none"
    /\ exitCode = <<0>> => argc >= 2 /\ Len(out) = Len(tree.tab) /\ Len(out) > 0
    /\ argc < 2 => err = "usage"
    /\ err \in {"usage", "fopen"} => exitCode = <<1>>
    /\ err = "stat" => exitCode = <<2>>

\* A run ended by a failed stat(), with exit code 2.
C5_Witness == pc = "exit" /\ err = "stat" /\ exitCode = <<2>>

---------------------------------------------------------------------------
(* C6 *)

ErrorKinds == {"usage", "fopen", "opendir", "stat"}

\* C6, as claimed: each of the four kinds of error ends the run at once,
\* with an exit code that no other kind of error exits with.
C6_DistinctExitCodes ==
  err \in ErrorKinds =>
    /\ pc = "exit"
    /\ \A k \in ErrorKinds \ {err} : ExitCodeOf(k) # exitCode

\* C6, amended: each of the four kinds of error ends the run at once with
\* an exit code other than 0: 1 for a missing argument, a file that cannot
\* be opened and a directory that cannot be opened, 2 for a failed stat();
\* only the last is the code of no other kind.
C6_ExitCodesOfErrors ==
  err \in ErrorKinds =>
    /\ pc = "exit"
    /\ exitCode # <<0>>
    /\ err \in {"usage", "fopen", "opendir"} <=> exitCode = <<1>>
    /\ err = "stat" <=> exitCode = <<2>>

\* A run ended by a failed opendir() of a directory below the root.
C6_Witness ==
  /\ pc = "exit"
  /\ err = "opendir"
  /\ exitCode = <<1>>
  /\ Len(tree.tab) > 1

---------------------------------------------------------------------------
(* C7 *)

\* C7: once a failure has occurred the run is over, with no exit code or a
\* code other than 0: consolidate_directories has visited no node and
\* print_result has printed no line.
C7_NoPartialResult ==
  err # "none" =>
    /\ pc \in {"exit", "abort"}
    /\ exitCode # <<0>>
    /\ folded = <<>>
    /\ it = NoNode
    /\ out = <<>>

\* A run ended by a failed stat() after a file of a directory below the
\* root was counted.
C7_Witness ==
  /\ err = "stat"
  /\ pc = "exit"
  /\ \E i \in Nodes : i # tree.root /\ NLines(i) # Zero

---------------------------------------------------------------------------
(* C8 *)

\* The scan is running or has just returned, and nothing has failed.
Scanning ==
  /\ err = "none"
  /\ pc = "scan" \/ (pc = "consolidate" /\ folded = <<>>)

\* C8: an entry whose name begins with a dot is never handed to stat() or
\* fopen(), is never scanned as a directory (no call of scan_directories
\* for it, no entry read inside it, no node of its name), and adds to no
\* line count: until consolidation the count of a node is the sum, modulo
\* 2^32, of the files of its directory that were opened, none of them
\* hidden.
C8_HiddenExcluded ==
  [](/\ \A x \in { y \in fs : RefHidden(y.name) } :
          LET path == RefPath(x)
          IN  /\ path \notin statted
              /\ path \notin opened
              /\ path \notin NodeNames
              /\ \A k \in 1..Len(stack) : stack[k].dirname # path
              /\ \A y \in fs : y.dir # path
     /\ Scanning =>
          \A i \in Nodes :
            NLines(i) =
              ToUnsigned(RefSum({ x \in fs : /\ x.dir = Name(i)
                                             /\ RefPath(x) \in opened
                                             /\ ~RefHidden(x.name) })))

\* The scan has returned from a walk that met a hidden directory and a
\* hidden file with the suffix .c.
C8_Witness ==
  /\ pc = "consolidate"
  /\ \E x \in fs : RefHidden(x.name) /\ x.kind = "dir"
  /\ \E x \in fs : /\ RefHidden(x.name)
                   /\ x.kind = "reg"
                   /\ x.lines # Zero
                   /\ string_end_with_str_p(x.name, <<".", "c">>)

---------------------------------------------------------------------------
(* C9 *)

\* C9, as claimed: after the scan and before consolidation the line count
\* of every node equals the sum of the '\n' bytes of the counted files
\* directly in its own directory.
C9_OwnSumExact ==
  (pc = "consolidate" /\ folded = <<>>) =>
    \A i \in Nodes : NLines(i) = RefOwn(Name(i))

\* C9, amended: during the scan and until consolidation the line count of
\* every node equals that sum modulo 2^32: a file with another suffix adds
\* nothing, and a file adds to no node but that of its own directory.
C9_OwnSumModulo ==
  Scanning => \A i \in Nodes : NLines(i) = ToUnsigned(RefOwn(Name(i)))

\* The scan has returned: the root holds only a file that is not counted
\* and still has the count 0, a directory below it holds a counted file.
C9_Witness ==
  /\ pc = "consolidate"
  /\ folded = <<>>
  /\ \E x \in fs : x.dir = argv1 /\ x.kind = "reg" /\ ~RefCounted(x)
                   /\ ~RefHidden(x.name) /\ x.lines # Zero
  /\ NLines(tree.root) = Zero
  /\ \E i \in Nodes : i # tree.root /\ NLines(i) # Zero

---------------------------------------------------------------------------
(* C10 *)

\* The entries of directory d that are counted files or visible
\* directories.
RefContent(d) ==
  { x \in fs : /\ x.dir = d
               /\ RefCounted(x) \/ (x.kind = "dir" /\ ~RefHidden(x.name)) }

\* C10: after a scan without failure the nodes and the directories of the
\* walk correspond one to one: every directory has one node and every node
\* is a directory; the root is the node of argv[1] and the only node
\* without a parent; the parent of any other node is the node of the
\* directory that holds its directory, and it is a child of that node and
\* of no other; a directory that holds no counted file and no visible
\* directory has a node with the count 0 and no children.
C10_NodesAreDirectories ==
  []((err = "none" /\ pc \in {"consolidate", "print", "exit"}) =>
       /\ LET dirs == RefDirs
          IN  NodeNames = dirs /\ Len(tree.tab) = Cardinality(dirs)
       /\ tree.root \in Nodes
       /\ Name(tree.root) = argv1
       /\ \A i \in Nodes : tree_up(tree, i) = NoNode <=> i = tree.root
       /\ \A i \in Nodes \ {tree.root} :
            /\ tree_up(tree, i) \in Nodes
            /\ \E x \in fs : /\ x.kind = "dir"
                             /\ RefPath(x) = Name(i)
                             /\ x.dir = Name(tree_up(tree, i))
       /\ \A i, j \in Nodes :
            Cardinality({ k \in 1..Len(Children(i)) : Children(i)[k] = j })
              = IF tree_up(tree, j) = i THEN 1 ELSE 0
       /\ \A i \in Nodes :
            RefContent(Name(i)) = {} => NLines(i) = Zero /\ Children(i) = <<>>)

\* The scan has returned from a directory that holds a directory that
\* holds an empty directory: three nodes in a chain.
C10_Witness ==
  /\ pc = "consolidate"
  /\ folded = <<>>
  /\ Len(tree.tab) = 3
  /\ tree_up(tree, 3) = 2
  /\ tree_up(tree, 2) = tree.root
  /\ { x \in fs : x.dir = Name(3) } = {}
  /\ Children(3) = <<>>

---------------------------------------------------------------------------
(* The report.                                                             *)

\* The nodes below and including node i, every node before its
\* descendants and the children of a node in their order, each with the
\* number of its ancestors when node i has d of them.
RECURSIVE RefPreOrder(_, _, _)
RefPreOrder(i, d, k) ==
  IF k > Len(Children(i))
    THEN <<>>
    ELSE (<<[node |-> Children(i)[k], depth |-> d + 1]>>
            \o RefPreOrder(Children(i)[k], d + 1, 1))
         \o RefPreOrder(i, d, k + 1)

\* The report the final tree calls for: one line per node.
RefReport ==
  IF tree.root = NoNode THEN <<>>
  ELSE LET order == <<[node |-> tree.root, depth |-> 0]>>
                      \o RefPreOrder(tree.root, 0, 1)
       IN  [k \in 1..Len(order) |->
              [depth |-> order[k].depth,
               nlines |-> ToUnsigned(RefTotal(Name(order[k].node))),
               name |-> Name(order[k].node)]]

\* C11: the report has exactly one line per node of the tree, in
\* pre-order (every node before its descendants, the children of a node
\* with the most lines first), each line with the consolidated total of
\* the node and its depth, the number of its ancestors. While the report
\* is printed the lines so far are the first lines of that report, and a
\* step of print_result adds one line, for a node that has no line yet.
C11_ReportPreOrder ==
  /\ [](/\ out # <<>> => Consolidated
        /\ Consolidated =>
             LET ref == RefReport
             IN  /\ Len(out) <= Len(ref)
                 /\ out = SubSeq(ref, 1, Len(out))
                 /\ pc = "exit" => out = ref /\ Len(out) = Len(tree.tab)
                 /\ \A i \in Nodes : \A k \in 1..(Len(Children(i)) - 1) :
                      ~NumGreater(NLines(Children(i)[k + 1]),
                                  NLines(Children(i)[k])))
  /\ [][out' # out =>
          /\ Len(out') = Len(out) + 1
          /\ SubSeq(out', 1, Len(out)) = out
          /\ \A k \in 1..Len(out) : out[k].name # out'[Len(out')].name
          /\ \E i \in Nodes : /\ Name(i) = out'[Len(out')].name
                               /\ NLines(i) = out'[Len(out')].nlines]_vars

\* A root that holds a.c (3 lines) and s, which holds b.h (5 lines): the
\* root with 8 at depth 0, then s with 5 at depth 1.
C11_Witness ==
  /\ pc = "exit"
  /\ exitCode = <<0>>
  /\ out = << [depth |-> 0, nlines |-> [hi |-> 0, lo |-> 8], name |-> <<".">>],
              [depth |-> 1, nlines |-> [hi |-> 0, lo |-> 5],
               name |-> <<".", "/", "s">>] >>

---------------------------------------------------------------------------
(* The three phases of main.                                               *)

\* C12: the three phases are strictly ordered. Once the first node is
\* folded the scanner is over: no entry is read, no file opened, no node
\* inserted, and the tree only changes by a fold. No line is reported
\* before every node is folded and its children sorted. The report phase
\* changes no count and no order of children.
C12_PhasesOrdered ==
  /\ [](folded # <<>> => pc \notin {"main", "scan"} /\ stack = <<>>)
  /\ [](out # <<>> => /\ pc \in {"print", "exit"}
                      /\ Len(folded) = Len(tree.tab)
                      /\ \A i \in Nodes : \E k \in 1..Len(folded) : folded[k] = i)
  /\ [][folded # <<>> => /\ fs' = fs
                         /\ statted' = statted
                         /\ opened' = opened
                         /\ Len(tree'.tab) = Len(tree.tab)
                         /\ tree' # tree => folded' # folded]_vars
  /\ [][pc = "print" \/ out' # out => tree' = tree /\ folded' = folded]_vars

\* A run through the three phases: files were counted, the two nodes
\* folded and two lines reported.
C12_Witness ==
  /\ pc = "exit"
  /\ exitCode = <<0>>
  /\ opened # {}
  /\ Len(folded) = 2
  /\ Len(out) = 2

---------------------------------------------------------------------------
(* One pass of consolidate_directories.                                    *)

\* The nodes folded so far.
FoldedSet == { folded[k] : k \in 1..Len(folded) }

\* The sum of the counts of the children of node i that are folded.
RECURSIVE FoldedChildrenSum(_, _)
FoldedChildrenSum(i, k) ==
  IF k > Len(Children(i)) THEN Zero
  ELSE NumAdd(IF \E l \in 1..Len(folded) : folded[l] = Children(i)[k]
                THEN NLines(Children(i)[k]) ELSE Zero,
              FoldedChildrenSum(i, k + 1))

\* C13: in one pass of the consolidation every node is folded at most
\* once and, at the end, exactly once; a node is folded after all its
\* children, so the root is folded last and into nothing; the count of a
\* node is what its own files hold plus the count of each of its children
\* folded so far, added once; the node about to be folded already holds
\* its final total, the sum of its subtree; and the step that folds a node
\* adds its count to the count of its parent and changes no other count.
C13_FoldedOnceChildrenFirst ==
  /\ [](pc = "consolidate" =>
         /\ \A k, l \in 1..Len(folded) : folded[k] = folded[l] => k = l
         /\ \A k \in 1..Len(folded) :
              /\ folded[k] \in Nodes
              /\ \A c \in Nodes :
                   tree.tab[c].parent = folded[k] =>
                     \E l \in 1..(k - 1) : folded[l] = c
              /\ folded[k] = tree.root => k = Len(tree.tab)
         /\ tree.tab[tree.root].parent = NoNode
         /\ \A i \in Nodes :
              NLines(i) = ToUnsigned(NumAdd(RefOwn(Name(i)),
                                            FoldedChildrenSum(i, 1)))
         /\ ~tree_end_p(it) =>
              /\ it \notin FoldedSet
              /\ \A c \in Nodes : tree.tab[c].parent = it => c \in FoldedSet
              /\ NLines(it) = ToUnsigned(RefTotal(Name(it)))
         /\ tree_end_p(it) => FoldedSet = Nodes)
  /\ [][folded' # folded =>
          /\ folded' = Append(folded, it)
          /\ \A i \in Nodes :
               tree'.tab[i].data.nlines =
                 IF i = tree.tab[it].parent
                   THEN ToUnsigned(NumAdd(NLines(i), NLines(it)))
                   ELSE NLines(i)]_vars

\* In the middle of a pass: s, which holds a file, is folded into the
\* root, and t and the root are not folded yet.
C13_Witness ==
  /\ pc = "consolidate"
  /\ Len(tree.tab) = 3
  /\ Len(folded) = 1
  /\ NLines(folded[1]) # Zero
  /\ tree.tab[folded[1]].parent = tree.root
  /\ NLines(tree.root) # Zero

---------------------------------------------------------------------------
(* Files that are not regular files.                                       *)

\* C14: only regular files are counted. A visible entry that is neither a
\* directory nor a regular file is never opened and adds nothing, whatever
\* its name: the count of a node is, until consolidation, the sum of the
\* counted regular files of its directory.
C14_OnlyRegularCounted ==
  /\ \A x \in fs : x.kind \notin {"dir", "reg"} => RefPath(x) \notin opened
  /\ Scanning =>
       \A i \in Nodes :
         NLines(i) = ToUnsigned(RefSum({ x \in fs : /\ x.dir = Name(i)
                                                    /\ x.kind = "reg"
                                                    /\ RefCounted(x) }))

---------------------------------------------------------------------------
(* The parallel scan.                                                      *)

\* The sum of the first n files of worker w.
RECURSIVE WorkerSum(_, _)
WorkerSum(w, n) ==
  IF n = 0 THEN Zero ELSE NumAdd(WorkerFile(w, n), WorkerSum(w, n - 1))

\* The sum of what the workers 1..n have added.
RECURSIVE AddedSum(_)
AddedSum(n) ==
  IF n = 0 THEN Zero
  ELSE NumAdd(WorkerSum(n, workers[n].done), AddedSum(n - 1))

\* C15: with any number of workers, in any interleaving of their steps, no
\* addition is lost: the count of the node is at every moment the sum,
\* modulo 2^32, of the counts the workers have added, and so is the final
\* count when all workers are done.
C15_NoLostUpdate ==
  pc = "parallel" =>
    tree.tab[tree.root].data.nlines = ToUnsigned(AddedSum(Len(workers)))

\* Two workers are done; each has read its last file before the other one
\* added the count of its last file.
C15_Witness ==
  /\ pc = "parallel"
  /\ Len(workers) = 2
  /\ \A w \in 1..2 : /\ workers[w].files = 1
                      /\ workers[w].done = 1
                      /\ workers[w].seen = Zero
  /\ tree.tab[tree.root].data.nlines # Zero

---------------------------------------------------------------------------
(* The references to the nodes.                                            *)

\* C16: in the reserved and locked tree a reference to a node stays a
\* reference to that node. No step moves a node: after any step every
\* node has the name and the parent it had, and an insertion leaves every
\* counter as it was. So the iterator that a call of scan_directories got
\* from add_directory is, at every later moment of the call, the node of
\* the directory of that call, below the node of the calling call.
C16_ReferencesStable ==
  /\ [](pc = "scan" =>
         /\ tree.lock
         /\ tree.capacity = MAX_DIRECTORY
         /\ \A k \in 1..Len(stack) :
              stack[k].st = "loop" =>
                /\ stack[k].it \in Nodes
                /\ Name(stack[k].it) = stack[k].dirname
                /\ tree.tab[stack[k].it].parent =
                     (IF k = 1 THEN NoNode ELSE stack[k - 1].it))
  /\ [][\A i \in Nodes :
          /\ i <= Len(tree'.tab)
          /\ tree'.tab[i].data.name = Name(i)
          /\ tree'.tab[i].parent = tree.tab[i].parent
          /\ Len(tree'.tab) > Len(tree.tab) =>
               tree'.tab[i].data.nlines = NLines(i)]_vars

\* The call for the root is in its loop after two directories were
\* inserted below the root, and the root has counted a file.
C16_Witness ==
  /\ pc = "scan"
  /\ Len(stack) = 1
  /\ Top.st = "loop"
  /\ Len(tree.tab) = 3
  /\ Name(Top.it) = Top.dirname
  /\ NLines(Top.it) # Zero
  /\ \E x \in fs : x.kind = "dir" /\ x.dir # argv1

---------------------------------------------------------------------------
(* What the consolidation leaves alone.                                    *)

\* The children of node i in tree t, as a set.
ChildSet(t, i) == { t.tab[i].child[k] : k \in 1..Len(t.tab[i].child) }

\* C17: a step of the consolidation changes only line counts and the
\* order of siblings: the tree keeps its root and its nodes, every node
\* its name, its parent and the set of its children; and the sort of the
\* children of the node that is folded leaves the children of every other
\* node in their order.
C17_ConsolidationFrame ==
  [][pc = "consolidate" =>
       /\ tree'.root = tree.root
       /\ tree'.capacity = tree.capacity
       /\ tree'.lock = tree.lock
       /\ Len(tree'.tab) = Len(tree.tab)
       /\ \A i \in Nodes :
            /\ tree'.tab[i].data.name = Name(i)
            /\ tree'.tab[i].parent = tree.tab[i].parent
            /\ ChildSet(tree', i) = ChildSet(tree, i)
            /\ Len(tree'.tab[i].child) = Len(Children(i))
            /\ i # it => tree'.tab[i].child = Children(i)]_vars

\* The consolidation has changed the order of the two children of the
\* root, after the fold of both.
C17_Witness ==
  /\ pc = "print"
  /\ Len(tree.tab) = 3
  /\ Children(tree.root) = <<3, 2>>
  /\ tree.tab[2].parent = tree.root

---------------------------------------------------------------------------
(* The width of the counts.                                                *)

\* The count is a value of unsigned: below 2^32.
IsUnsigned(n) == n.hi \in 0..(HALF - 1) /\ n.lo \in 0..(HALF - 1)

\* C18: the counts are unsigned of 32 bits. The count of every node is at
\* every moment below 2^32; every line of the finished report has the sum
\* of the subtree modulo 2^32; a sum that passes 2^32 ends no run: a run
\* ends early only by one of the errors of the scanner. The step that
\* counts a file adds its '\n' bytes modulo 2^32 to the node of its
\* directory, and the step that folds a node adds modulo 2^32.
C18_UnsignedWrap ==
  /\ [](/\ \A i \in Nodes : IsUnsigned(NLines(i))
        /\ \A k \in 1..Len(out) : IsUnsigned(out[k].nlines)
        /\ pc = "exit" =>
             \A k \in 1..Len(out) :
               out[k].nlines = ToUnsigned(RefTotal(out[k].name))
        /\ pc = "abort" => err = "capacity"
        /\ pc = "exit" /\ exitCode # <<0>> => err \in ErrorKinds)
  /\ [][fs' # fs /\ err' = "none" =>
          \A x \in fs' \ fs : \A i \in Nodes :
            tree'.tab[i].data.nlines =
              IF Name(i) = x.dir /\ RefCounted(x)
                THEN ToUnsigned(NumAdd(NLines(i), x.lines))
                ELSE NLines(i)]_vars
  /\ [][pc = "consolidate" /\ ~tree_end_p(it) =>
          \A i \in Nodes :
            tree'.tab[i].data.nlines =
              IF i = tree.tab[it].parent
                THEN ToUnsigned(NumAdd(NLines(i), NLines(it)))
                ELSE NLines(i)]_vars

\* A run has ended with exit(0) and reported 0 for a directory whose
\* files hold 2^33 lines.
C18_Witness ==
  /\ pc = "exit"
  /\ exitCode = <<0>>
  /\ \E k \in 1..Len(out) :
       /\ RefTotal(out[k].name) = [hi |-> 2 * HALF, lo |-> 0]
       /\ out[k].nlines = Zero

=============================================================================
